---- MODULE Spec2Model ----
(***************************************************************************)
(* A model of the ST-GCN dance pose generation pipeline                    *)
(* (src/stgcn_inference.py, driven by src/backend_server.py).              *)
(*                                                                         *)
(* Floating point values are modelled as exact rationals <<n, d>> in       *)
(* lowest terms with d > 0; a pose vector is a function 0..98 -> rational  *)
(* (0-based, as numpy indexes it); lists (frames_vecs, generated_poses,    *)
(* the deque pose_history) are sequences, oldest first.                    *)
(***************************************************************************)
EXTENDS Integers, Sequences, FiniteSets, TLC

\* ------------------------------------------------------------------------
\* Program constants
\* ------------------------------------------------------------------------
NUM_JOINTS == 33
IN_CHANNELS == 3
POSE_DIM == 99
LEFT_SHOULDER == 11
RIGHT_SHOULDER == 12
LEFT_HIP == 23
RIGHT_HIP == 24
DEFAULT_FPS == 30

Joints == 0 .. (NUM_JOINTS - 1)
Axes == 0 .. (IN_CHANNELS - 1)
PoseIdx == 0 .. (POSE_DIM - 1)

\* hidden_channels=[64, 128, 256], hard-coded at the construction of the model
HIDDEN_CHANNELS == <<64, 128, 256>>

\* ------------------------------------------------------------------------
\* Exact rational arithmetic standing for float arithmetic
\* ------------------------------------------------------------------------
Abs(n) == IF n < 0 THEN -n ELSE n

RECURSIVE Gcd(_, _)
Gcd(a, b) == IF b = 0 THEN a ELSE Gcd(b, a % b)

Sign(n) == IF n > 0 THEN 1 ELSE IF n < 0 THEN -1 ELSE 0

\* The rational n/d in lowest terms with a positive denominator. A division
\* by zero gives what float division gives: <<1, 0>> (inf), <<-1, 0>> (-inf)
\* or <<0, 0>> (nan).
Rat(n, d) ==
    IF d = 0 THEN <<Sign(n), 0>>
    ELSE LET g == Gcd(Abs(n), Abs(d))
             s == IF d < 0 THEN -1 ELSE 1
         IN  <<(s * n) \div g, (s * d) \div g>>

\* neither inf nor nan
Finite(q) == q[2] # 0

Zero == <<0, 1>>
One == <<1, 1>>
Two == <<2, 1>>
RInt(n) == <<n, 1>>

RAdd(p, q) == Rat(p[1] * q[2] + q[1] * p[2], p[2] * q[2])
RSub(p, q) == Rat(p[1] * q[2] - q[1] * p[2], p[2] * q[2])
RMul(p, q) == Rat(p[1] * q[1], p[2] * q[2])
RDiv(p, q) == Rat(p[1] * q[2], p[2] * q[1])
RLess(p, q) == p[1] * q[2] < q[1] * p[2]

\* integer square root (floor), by bisection on lo .. hi
RECURSIVE ISqrtIn(_, _, _)
ISqrtIn(n, lo, hi) ==
    IF lo >= hi THEN lo
    ELSE LET mid == (lo + hi + 1) \div 2
         IN  IF mid * mid <= n THEN ISqrtIn(n, mid, hi)
             ELSE ISqrtIn(n, lo, mid - 1)

ISqrt(n) == ISqrtIn(n, 0, IF n < 46340 THEN n ELSE 46340)

\* the square root of a rational that is the square of a rational
RSqrt(q) == <<ISqrt(q[1]), ISqrt(q[2])>>

\* ------------------------------------------------------------------------
\* normalize_landmarks
\* ------------------------------------------------------------------------
\* An optional value is a sequence of at most one element: None, or Some(v)
\* whose value is o[1].
None == <<>>
Some(v) == <<v>>

\* (a + b) / 2.0 on 3-vectors
MidPoint(a, b) == [c \in Axes |-> RDiv(RAdd(a[c], b[c]), Two)]

VecSub(a, b) == [c \in Axes |-> RSub(a[c], b[c])]

\* np.linalg.norm of a 3-vector
SumSquares(v) ==
    RAdd(RAdd(RMul(v[0], v[0]), RMul(v[1], v[1])), RMul(v[2], v[2]))

Norm(v) == RSqrt(SumSquares(v))

\* 1e-6
TORSO_EPS == <<1, 1000000>>

HipMid(landmarks) == MidPoint(landmarks[LEFT_HIP], landmarks[RIGHT_HIP])

ShoulderMid(landmarks) ==
    MidPoint(landmarks[LEFT_SHOULDER], landmarks[RIGHT_SHOULDER])

\* landmarks - hip_mid, broadcast over the joints
Centered(landmarks) ==
    [j \in Joints |-> VecSub(landmarks[j], HipMid(landmarks))]

\* torso_len as measured, before the degenerate-pose guard
RawTorsoLen(landmarks) ==
    Norm(VecSub(ShoulderMid(landmarks), HipMid(landmarks)))

\* (no guard: torso_len as measured)
TorsoLenUnguarded(landmarks) == RawTorsoLen(landmarks)

\* torso_len as used: 1.0 when below 1e-6
TorsoLen(landmarks) ==
    IF RLess(RawTorsoLen(landmarks), TORSO_EPS) THEN One
    ELSE RawTorsoLen(landmarks)

\* (a column-major flattening: entry 33*c + j)
FlattenColumnMajor(arr) == [i \in PoseIdx |-> arr[i % NUM_JOINTS][i \div NUM_JOINTS]]

\* ndarray.flatten() of a (33, 3) array: row-major, entry 3*j + c
Flatten(arr) == [i \in PoseIdx |-> arr[i \div IN_CHANNELS][i % IN_CHANNELS]]

\* (centered only, no division by torso_len)
NormalizedUnscaled(landmarks) == Flatten(Centered(landmarks))

\* (centered / torso_len).flatten()
Normalized(landmarks) ==
    LET centered == Centered(landmarks)
        torso_len == TorsoLen(landmarks)
    IN  Flatten([j \in Joints |->
                   [c \in Axes |-> RDiv(centered[j][c], torso_len)]])

\* lm is None or Some((33, 3) array landmarks[j][c])
normalize_landmarks(lm) ==
    IF lm = None THEN None ELSE Some(Normalized(lm[1]))

\* ------------------------------------------------------------------------
\* Bounds of the model
\* ------------------------------------------------------------------------
\* the largest hip coordinate of a landmark set given to normalize_landmarks
MaxCoord == 2
\* the largest seq_len a checkpoint's configuration records
MaxSeqLen == 2
\* the largest number of frames a video decodes to
MaxVideoFrames == 3
\* the largest requested num_frames
MaxNumFrames == 2
\* how often accelerator availability may change during a run
MaxDeviceChanges == 1

SeqLens == 1 .. MaxSeqLen
\* num_frames reaches generate_poses_from_video unvalidated (argparse type=int,
\* request JSON): negative counts are inputs too
NumFramesChoices == (-1) .. MaxNumFrames
\* CAP_PROP_FPS as reported (0 when unknown) and the requested proc_fps
VideoFpsChoices == {0, 25, 30}
ProcFpsChoices == {4, 10, 30, 60}

\* ------------------------------------------------------------------------
\* Landmark sets the detector reports
\* ------------------------------------------------------------------------
\* a point with rational coordinates, and one with integer coordinates
RP3(x, y, z) == [c \in Axes |-> IF c = 0 THEN x ELSE IF c = 1 THEN y ELSE z]
P3(x, y, z) == RP3(RInt(x), RInt(y), RInt(z))
VecAdd(a, b) == [c \in Axes |-> RAdd(a[c], b[c])]

\* a (33, 3) array with the given hips and shoulders; joint j elsewhere
MakeLandmarks(lhip, rhip, lsho, rsho, k) ==
    [j \in Joints |->
        IF j = LEFT_HIP THEN lhip
        ELSE IF j = RIGHT_HIP THEN rhip
        ELSE IF j = LEFT_SHOULDER THEN lsho
        ELSE IF j = RIGHT_SHOULDER THEN rsho
        ELSE P3((j + k) % 5, (j * k) % 7, j % 3)]

LandmarkIds == {"A", "B"}

LandmarksOf(id) ==
    IF id = "A"
    THEN MakeLandmarks(P3(2, 8, 0), P3(6, 8, 0), P3(1, 4, 0), P3(7, 4, 0), 1)
    ELSE MakeLandmarks(P3(3, 9, 1), P3(5, 9, 1), P3(6, 5, 1), P3(8, 5, 1), 2)

\* ------------------------------------------------------------------------
\* STGCNRegressor: parameter shapes and forward
\* ------------------------------------------------------------------------
HiddenChoices == {HIDDEN_CHANNELS, <<32, 64>>}

\* the shapes of the parameters STGCNRegressor.__init__ creates: input_proj maps
\* in_channels to hidden_channels[0], block i maps ch_in to hidden_channels[i],
\* fc maps hidden_channels[-1] to num_joints * 3; seq_len shapes no parameter
ShapesOf(in_channels, num_joints, seq_len, hidden_channels) ==
    [input_proj |-> <<in_channels, hidden_channels[1]>>,
     blocks |-> [i \in 1 .. Len(hidden_channels) |->
                    <<IF i = 1 THEN hidden_channels[1] ELSE hidden_channels[i - 1],
                      hidden_channels[i]>>],
     fc |-> <<hidden_channels[Len(hidden_channels)], num_joints * 3>>]

\* the configuration record of a checkpoint
Configs ==
    [seq_len : SeqLens, num_joints : {NUM_JOINTS}, hidden_channels : HiddenChoices]

\* A checkpoint file: corrupt (torch.load raises), or a configuration with the
\* weights of a model that was built with hidden sizes `trained`.
Checkpoints ==
    {[corrupt |-> TRUE, cfg |-> None, model_state |-> None]}
    \cup {[corrupt |-> FALSE,
           cfg |-> Some(cfg),
           model_state |-> Some(ShapesOf(IN_CHANNELS, cfg.num_joints, cfg.seq_len, trained))]
          : cfg \in Configs, trained \in HiddenChoices}

\* whether the weights of ckpt are those of a model built from ckpt's own cfg
OwnShapes(ckpt) ==
    LET cfg == ckpt.cfg[1]
    IN  ckpt.model_state[1] =
            ShapesOf(IN_CHANNELS, cfg.num_joints, cfg.seq_len, cfg.hidden_channels)

\* STGCNRegressor(in_channels=3, num_joints=33, seq_len=loaded_cfg["seq_len"],
\*                hidden_channels=[64, 128, 256])
ConstructedShapes(loaded_cfg) ==
    ShapesOf(IN_CHANNELS, NUM_JOINTS, loaded_cfg.seq_len, HIDDEN_CHANNELS)

\* model.load_state_dict (strict): every parameter shape must agree
LoadStateDictOk(loaded_cfg, model_state) ==
    ConstructedShapes(loaded_cfg) = model_state

\* (a channel-major reading of the vector: entry 33*c + j)
ReshapeChannelMajor(pose_history, seq_len) ==
    [t \in 0 .. (seq_len - 1) |->
        [j \in Joints |-> [c \in Axes |-> pose_history[t + 1][NUM_JOINTS * c + j]]]]

\* np.array(list(pose_history)).reshape(seq_len, 33, 3): [t][j][c], t 0-based
Reshape(pose_history, seq_len) ==
    [t \in 0 .. (seq_len - 1) |->
        [j \in Joints |-> [c \in Axes |-> pose_history[t + 1][IN_CHANNELS * j + c]]]]

\* permute(2, 0, 1): (seq_len, 33, 3) -> (3, seq_len, 33)
Permute(arr, seq_len) ==
    [c \in Axes |-> [t \in 0 .. (seq_len - 1) |-> [j \in Joints |-> arr[t][j][c]]]]

\* unsqueeze(0): (1, 3, seq_len, 33)
InputTensor(pose_history, seq_len) ==
    [b \in {0} |-> Permute(Reshape(pose_history, seq_len), seq_len)]

\* The trained network is a fixed function of its input tensor, evaluated
\* without parameter updates. It stands here as a linear extrapolation along
\* the time axis plus a bias, per joint and channel: a function that depends
\* on the layout and on the order of the window.
Forward(x, seq_len) ==
    [b \in DOMAIN x |->
        [i \in PoseIdx |->
            LET j == i \div IN_CHANNELS
                c == i % IN_CHANNELS
                last == x[b][c][seq_len - 1][j]
                first == x[b][c][0][j]
            IN  RAdd(RAdd(last, RSub(last, first)), One)]]

\* ------------------------------------------------------------------------
\* State
\* ------------------------------------------------------------------------
Requests == {1, 2}

VARIABLES
    POSE_DETECTOR,    \* the module-level detector: None when MediaPipe failed to
                      \* initialize, else Some(its tracking state)
    given,            \* given[r]: None (r's inputs are drawn as they are read) or
                      \* Some(the video and the arguments of request r)
    cuda_available,   \* what torch.cuda.is_available() answers now
    device_changes,   \* how often cuda_available has changed
    disk_file,        \* generated_poses.json: None (absent) or Some(document)
    run,              \* run[r]: the locals of request r's generate_poses_from_video call
    norm_pc,          \* stand-alone normalize_landmarks calls: "idle", "call", "done"
    landmarks,        \* the input of the first call
    normalized,       \* its output
    scale,            \* the factor k of the second call, whose input is k * landmarks
    normalized_scaled,\* the output of the second call
    viewer            \* a consumer of the output file: None, or Some(what it loaded)

vars == <<POSE_DETECTOR, given, cuda_available, device_changes, disk_file, run,
          norm_pc, landmarks, normalized, scale, normalized_scaled, viewer>>

\* the statements of generate_poses_from_video, in program order
Program ==
    <<"validate", "load", "config", "seed", "device", "predict", "prepare",
      "open", "dump", "return">>

\* (the output file opened before the poses are generated)
PhaseAfterOpenEarly(phase) ==
    LET early == <<"validate", "load", "config", "seed", "device", "open",
                   "predict", "prepare", "dump", "return">>
        i == CHOOSE n \in 1 .. Len(early) : early[n] = phase
    IN  early[i + 1]

\* the statement that follows in program order
PhaseAfter(phase) ==
    LET i == CHOOSE n \in 1 .. Len(Program) : Program[n] = phase
    IN  Program[i + 1]

\* a document left in generated_poses.json by an earlier run
StaleDocument == <<<<"stale", 0>>>>

NothingFound == [stgcn |-> None, pca |-> "absent", kmeans |-> "absent"]

\* The locals of a call that has not started. The arguments num_frames and
\* proc_fps are drawn where the program first reads them (the entry of
\* predict_pose_sequence, the stride of the sampler): no statement before
\* depends on them.
NewRun(phase) ==
    [phase |-> phase, at |-> "call",
     num_frames |-> 0,
     model |-> None, pca_model |-> None, kmeans_model |-> None, config |-> None,
     seq_len |-> 0, device |-> None, inference_device |-> None,
     cap |-> "none", video_fps |-> 0, step |-> 0, idx |-> 0,
     frames_vecs |-> <<>>, seed_sequence |-> None,
     pose_history |-> <<>>, generated_poses |-> <<>>, i |-> 0,
     generated_sequence |-> None, output_data |-> None,
     fpos |-> 0,
     returned |-> None, error |-> None, response |-> None,
     \* history, not read by the program: the files the loader found, the
     \* rate the capture reported, the rate asked of the sampler, the tuples
     \* (index, timestamp) it yielded, the frames decoded, the landmark sets
     \* detected, the predictions made, the
     \* writes to the output file, the statement that raised
     found |-> NothingFound,
     reported_fps |-> 0, sample_fps |-> 0, yielded |-> <<>>,
     decoded |-> 0, detections |-> <<>>, predictions |-> <<>>, file_ops |-> 0,
     failed_in |-> "none"]

\* mp_pose.Pose(static_image_mode=False, ...): a detector that treats the
\* images it is given as one video stream and tracks the pose from image to
\* image. tracking is the request whose frame it processed last, 0 at first.
FreshPose == [tracking |-> 0]

Init ==
    /\ POSE_DETECTOR \in {None, Some(FreshPose)}
    /\ given = [r \in Requests |-> None]
    /\ cuda_available \in BOOLEAN
    /\ device_changes = 0
    /\ disk_file \in {None, Some(StaleDocument)}
    /\ run = [r \in Requests |->
                 IF r = 1 THEN NewRun("validate") ELSE NewRun("idle")]
    /\ norm_pc = "idle"
    /\ landmarks = None
    /\ normalized = None
    /\ scale = One
    /\ normalized_scaled = None
    /\ viewer = None

\* raise: the exception leaves generate_poses_from_video
Raise(rec, type, msg) ==
    [rec EXCEPT !.phase = "failed", !.failed_in = rec.phase,
                !.error = Some([type |-> type, msg |-> msg])]

Goto(rec, phase) == [rec EXCEPT !.phase = phase, !.at = "call"]

Shared == <<POSE_DETECTOR, given, cuda_available, device_changes, disk_file>>
NormVars == <<norm_pc, landmarks, normalized, scale, normalized_scaled>>
\* the variables of the consumers of the program's outputs
Others == <<NormVars, viewer>>

\* ------------------------------------------------------------------------
\* generate_poses_from_video: input validation
\* ------------------------------------------------------------------------
Validate(r) ==
    /\ run[r].phase = "validate"
    /\ \E video_exists \in BOOLEAN :
          IF ~video_exists
          THEN run' = [run EXCEPT ![r] = Raise(@, "FileNotFoundError", <<"video">>)]
          ELSE \E dir_exists \in BOOLEAN :
                  run' = [run EXCEPT ![r] =
                            IF ~dir_exists
                            THEN Raise(@, "FileNotFoundError", <<"model_dir">>)
                            ELSE Goto(@, PhaseAfter("validate"))]
    /\ UNCHANGED <<Shared, Others>>

\* ------------------------------------------------------------------------
\* load_pipeline_models
\* ------------------------------------------------------------------------
CurrentDevice == IF cuda_available THEN "cuda" ELSE "cpu"

AuxStates == {"absent", "ok", "corrupt"}

\* pickle.load of an auxiliary model file that exists, else None
AuxModel(state, name) == IF state = "ok" THEN Some(name) ELSE None

\* (auxiliary models treated as required)
AuxFailsWhenAbsent(state) == state # "ok"

\* an auxiliary model file ends the load only when pickle.load raises on it
AuxFails(state) == state = "corrupt"

\* The outcome of load_pipeline_models for the files found: stgcn is None
\* (no stgcn_regressor.pth) or Some(checkpoint).
LoadOutcome(rec, stgcn, pca, kmeans, device) ==
    IF stgcn = None
    THEN Raise(rec, "FileNotFoundError", <<"stgcn_regressor.pth">>)
    ELSE IF stgcn[1].corrupt
    THEN Raise(rec, "UnpicklingError", <<"stgcn_regressor.pth">>)
    ELSE IF ~LoadStateDictOk(stgcn[1].cfg[1], stgcn[1].model_state[1])
    THEN Raise(rec, "RuntimeError", <<"size mismatch">>)
    ELSE IF AuxFails(pca)
    THEN Raise(rec, "UnpicklingError", <<"pca_transformer.pkl">>)
    ELSE IF AuxFails(kmeans)
    THEN Raise(rec, "UnpicklingError", <<"kmeans_clusters.pkl">>)
    ELSE [Goto(rec, PhaseAfter("load")) EXCEPT
            !.model = Some([device |-> device,
                            shapes |-> ConstructedShapes(stgcn[1].cfg[1])]),
            !.pca_model = AuxModel(pca, "pca"),
            !.kmeans_model = AuxModel(kmeans, "kmeans"),
            !.config = stgcn[1].cfg]

\* whether the loader gets as far as looking for the auxiliary models
ReachesAux(stgcn) ==
    /\ stgcn # None
    /\ ~stgcn[1].corrupt
    /\ LoadStateDictOk(stgcn[1].cfg[1], stgcn[1].model_state[1])

LoadPipelineModels(r) ==
    /\ run[r].phase = "load"
    /\ \E stgcn \in {None} \cup {Some(c) : c \in Checkpoints} :
          IF ~ReachesAux(stgcn)
          THEN run' = [run EXCEPT ![r] =
                         LoadOutcome([@ EXCEPT !.found.stgcn = stgcn],
                                     stgcn, "absent", "absent", CurrentDevice)]
          ELSE \E pca \in AuxStates :
                  IF AuxFails(pca)
                  THEN run' = [run EXCEPT ![r] =
                                 LoadOutcome([@ EXCEPT !.found.stgcn = stgcn,
                                                       !.found.pca = pca],
                                             stgcn, pca, "absent", CurrentDevice)]
                  ELSE \E kmeans \in AuxStates :
                          run' = [run EXCEPT ![r] =
                                    LoadOutcome([@ EXCEPT !.found.stgcn = stgcn,
                                                          !.found.pca = pca,
                                                          !.found.kmeans = kmeans],
                                                stgcn, pca, kmeans, CurrentDevice)]
    /\ UNCHANGED <<Shared, Others>>

\* seq_len = config["seq_len"]; device = "cuda" if available else "cpu".
\* config, pca_model and kmeans_model are not read again: the model forgets
\* them, and what the loader found, here.
ReadConfig(r) ==
    /\ run[r].phase = "config"
    /\ run' = [run EXCEPT ![r] =
                 [Goto(@, PhaseAfter("config")) EXCEPT
                    !.seq_len = run[r].config[1].seq_len,
                    !.device = Some(CurrentDevice),
                    !.config = None,
                    !.pca_model = None,
                    !.kmeans_model = None,
                    !.found = NothingFound]]
    /\ UNCHANGED <<Shared, Others>>

\* ------------------------------------------------------------------------
\* sample_frames_from_video, extract_pose_landmarks,
\* get_seed_sequence_from_video
\* ------------------------------------------------------------------------
\* Python's round() on a non-negative rational: to nearest, ties to even
PyRound(q) ==
    LET fl == q[1] \div q[2]
        twice == 2 * (q[1] - fl * q[2])
    IN  IF twice < q[2] THEN fl
        ELSE IF twice > q[2] THEN fl + 1
        ELSE IF fl % 2 = 0 THEN fl ELSE fl + 1

Max(a, b) == IF a >= b THEN a ELSE b

\* cap.get(cv2.CAP_PROP_FPS) or 30.0
VideoFps(reported) == IF reported = 0 THEN DEFAULT_FPS ELSE reported

\* (truncation instead of rounding: int(video_fps / sample_fps))
StrideTruncated(video_fps, sample_fps) == Max(1, video_fps \div sample_fps)

\* step = max(1, int(round(video_fps / sample_fps)))
Stride(video_fps, sample_fps) == Max(1, PyRound(Rat(video_fps, sample_fps)))

\* What request r's video and arguments may be: anything within the bounds,
\* or what was given.
OpensChoices(r) == IF given[r] = None THEN BOOLEAN ELSE {TRUE}
ReportedChoices(r) ==
    IF given[r] = None THEN VideoFpsChoices ELSE {given[r][1].reported_fps}
ProcFpsOf(r) == IF given[r] = None THEN ProcFpsChoices ELSE {given[r][1].proc_fps}
NumFramesOf(r) ==
    IF given[r] = None THEN NumFramesChoices ELSE {given[r][1].num_frames}
\* whether cap.read() returns a frame
ReadChoices(r) ==
    IF given[r] = None THEN BOOLEAN
    ELSE {run[r].decoded < Len(given[r][1].frames)}

\* The first next() of the generator: open the capture. A capture that did not
\* open ends the generator at once (print, return), without a release.
SamplerOpen(r) ==
    /\ run[r].phase = "seed"
    /\ run[r].at = "call"
    /\ \E opens \in OpensChoices(r) :
          IF ~opens
          THEN run' = [run EXCEPT ![r].cap = "unopened", ![r].at = "check"]
          ELSE \E reported \in ReportedChoices(r), proc_fps \in ProcFpsOf(r) :
                  run' = [run EXCEPT
                            ![r].cap = "open",
                            ![r].video_fps = VideoFps(reported),
                            ![r].step = Stride(VideoFps(reported), proc_fps),
                            ![r].reported_fps = reported,
                            ![r].sample_fps = proc_fps,
                            ![r].idx = 0,
                            ![r].at = "read"]
    /\ UNCHANGED <<Shared, Others>>

\* cap.read(): the end of the video (break, cap.release()), a frame that is
\* skipped (idx % step # 0), or a frame that is yielded to the consumer as
\* (idx, idx / video_fps, frame).
SamplerRead(r) ==
    /\ run[r].phase = "seed"
    /\ run[r].at = "read"
    /\ \E ret \in ReadChoices(r) :
          IF ~ret \/ run[r].decoded >= MaxVideoFrames
          THEN run' = [run EXCEPT ![r].cap = "released", ![r].at = "check"]
          ELSE IF run[r].idx % run[r].step = 0
          THEN run' = [run EXCEPT
                         ![r].decoded = @ + 1,
                         ![r].yielded =
                             Append(@, <<run[r].idx,
                                         Rat(run[r].idx, run[r].video_fps)>>),
                         ![r].at = "body"]
          ELSE run' = [run EXCEPT ![r].decoded = @ + 1, ![r].idx = @ + 1]
    /\ UNCHANGED <<Shared, Others>>

\* what POSE_DETECTOR.process finds in a frame: no pose, or a landmark set
Detections == {None} \cup {Some(id) : id \in LandmarkIds}

\* The detector is one object shared by all requests and is used without a
\* lock: a frame of request r processed after a frame of another request is
\* tracked from the other request's pose.
Interferes(r) == POSE_DETECTOR[1].tracking \notin {0, r}

\* What process() may find in the frame just yielded: in a frame that follows
\* the request's own frames what the frame shows, in one that follows another
\* request's frame any outcome.
FoundChoices(r) ==
    IF given[r] = None \/ Interferes(r) THEN Detections
    ELSE {given[r][1].frames[run[r].decoded]}

\* extract_pose_landmarks on a detection: None, or Some((33, 3) array)
extract_pose_landmarks(found) ==
    IF found = None THEN None ELSE Some(LandmarksOf(found[1]))

\* frames_vecs after the loop body has handled one yielded frame
BodyAppend(frames_vecs, lm) ==
    IF lm = None THEN frames_vecs
    ELSE Append(frames_vecs, normalize_landmarks(lm)[1])

\* The body of the for loop on a yielded frame, then the generator resumes
\* (idx += 1). With no detector extract_pose_landmarks raises, and the
\* exception leaves the loop with the generator suspended at its yield.
SeedBody(r) ==
    /\ run[r].phase = "seed"
    /\ run[r].at = "body"
    /\ IF POSE_DETECTOR = None
       THEN /\ run' = [run EXCEPT ![r] =
                         Raise(@, "RuntimeError", <<"POSE_DETECTOR not initialized">>)]
            /\ UNCHANGED POSE_DETECTOR
       ELSE \E found \in FoundChoices(r) :
               /\ run' = [run EXCEPT
                            ![r].frames_vecs =
                                BodyAppend(@, extract_pose_landmarks(found)),
                            ![r].detections =
                                IF found = None THEN @ ELSE Append(@, found[1]),
                            ![r].idx = @ + 1,
                            ![r].at = "read"]
               /\ POSE_DETECTOR' = Some([tracking |-> r])
    /\ UNCHANGED <<given, cuda_available, device_changes, disk_file, Others>>

\* (the last seq_len vectors instead of the first: frames_vecs[-seq_len:])
SeedSliceLast(frames_vecs, seq_len) ==
    SubSeq(frames_vecs,
           IF Len(frames_vecs) < seq_len THEN 1 ELSE Len(frames_vecs) - seq_len + 1,
           Len(frames_vecs))

\* frames_vecs[:seq_len]
SeedSlice(frames_vecs, seq_len) ==
    SubSeq(frames_vecs, 1, IF Len(frames_vecs) < seq_len THEN Len(frames_vecs) ELSE seq_len)

\* (a length check that is off by one)
SeedTooShortOffByOne(frames_vecs, seq_len) == Len(frames_vecs) < seq_len - 1

\* if len(frames_vecs) < seq_len: raise ValueError(...)
SeedTooShort(frames_vecs, seq_len) == Len(frames_vecs) < seq_len

\* After the loop: the length check, then np.stack(frames_vecs[:seq_len]); on
\* return the scan's list and what is left of the generator are gone.
SeedCheck(r) ==
    /\ run[r].phase = "seed"
    /\ run[r].at = "check"
    /\ LET seq_len == run[r].seq_len
           frames_vecs == run[r].frames_vecs
       IN  run' = [run EXCEPT ![r] =
                     IF SeedTooShort(frames_vecs, seq_len)
                     THEN Raise(@, "ValueError",
                                <<"usable frames", Len(frames_vecs), seq_len>>)
                     ELSE [Goto(@, PhaseAfter("seed")) EXCEPT
                             !.seed_sequence = Some(SeedSlice(frames_vecs, seq_len)),
                             !.frames_vecs = <<>>,
                             !.video_fps = 0, !.step = 0, !.idx = 0,
                             !.reported_fps = 0, !.sample_fps = 0,
                             !.yielded = <<>>]]
    /\ UNCHANGED <<Shared, Others>>

\* ------------------------------------------------------------------------
\* predict_pose_sequence
\* ------------------------------------------------------------------------
\* inference_device = "cuda" if torch.cuda.is_available() else "cpu"
SelectDevice(r) ==
    /\ run[r].phase = "device"
    /\ run' = [run EXCEPT ![r] =
                 [Goto(@, PhaseAfter("device")) EXCEPT
                    !.inference_device = Some(CurrentDevice)]]
    /\ UNCHANGED <<Shared, Others>>

\* deque(items, maxlen): the last maxlen items
Deque(items, maxlen) ==
    IF Len(items) <= maxlen THEN items
    ELSE SubSeq(items, Len(items) - maxlen + 1, Len(items))

\* (a list instead of a bounded deque: nothing is evicted)
DequeAppendUnbounded(history, item, maxlen) == Append(history, item)

\* (a full window that keeps what it holds and drops the new entry)
DequeAppendKeepOldest(history, item, maxlen) ==
    IF Len(history) < maxlen THEN Append(history, item) ELSE history

\* deque.append: the oldest entry leaves a full deque
DequeAppend(history, item, maxlen) == Deque(Append(history, item), maxlen)

\* the device the loop uses: cuda falls back to cpu when it is not available
CheckedDevice(device, available) ==
    IF device = "cuda" /\ ~available THEN "cpu" ELSE device

\* The entry of predict_pose_sequence: the device check, pose_history and
\* generated_poses from the seed.
PredictBegin(r) ==
    /\ run[r].phase = "predict"
    /\ run[r].at = "call"
    /\ LET seq_len == run[r].seq_len
           initial_sequence == run[r].seed_sequence[1]
       IN  \E num_frames \in NumFramesOf(r) :
             run' = [run EXCEPT
                     ![r].num_frames = num_frames,
                     ![r].inference_device =
                         Some(CheckedDevice(@[1], cuda_available)),
                     ![r].pose_history = Deque(initial_sequence, seq_len),
                     ![r].generated_poses = initial_sequence,
                     ![r].i = 0,
                     ![r].at = "loop"]
    /\ UNCHANGED <<Shared, Others>>

\* (a loop that stops one iteration early)
IterationsOneLess(num_frames) == Max(0, num_frames - 1)

\* (a loop that runs once more than asked)
IterationsInclusive(num_frames) == Max(0, num_frames + 1)

\* len(range(num_frames_to_generate))
Iterations(num_frames) == Max(0, num_frames)

\* A step cannot run when its input tensor is sent to an accelerator that is
\* gone, or to another device than the one holding the model's parameters.
StepFails(rec, available) ==
    \/ rec.inference_device[1] = "cuda" /\ ~available
    \/ rec.model[1].device # rec.inference_device[1]

\* One iteration of the loop: tensor, prediction, append to both sequences.
PredictStep(r) ==
    /\ run[r].phase = "predict"
    /\ run[r].at = "loop"
    /\ run[r].i < Iterations(run[r].num_frames)
    /\ LET seq_len == run[r].seq_len
           input_tensor == InputTensor(run[r].pose_history, seq_len)
           pred_pose == Forward(input_tensor, seq_len)[0]
       IN  run' = [run EXCEPT ![r] =
                     IF StepFails(@, cuda_available)
                     THEN Raise(@, "RuntimeError", <<"device">>)
                     ELSE [@ EXCEPT
                             !.pose_history = DequeAppend(@, pred_pose, seq_len),
                             !.generated_poses = Append(@, pred_pose),
                             !.predictions = Append(@, pred_pose),
                             !.i = @ + 1]]
    /\ UNCHANGED <<Shared, Others>>

\* result = np.array(generated_poses); return result (the locals are gone)
PredictEnd(r) ==
    /\ run[r].phase = "predict"
    /\ run[r].at = "loop"
    /\ run[r].i >= Iterations(run[r].num_frames)
    /\ run' = [run EXCEPT ![r] =
                 [Goto(@, PhaseAfter("predict")) EXCEPT
                    !.generated_sequence = Some(run[r].generated_poses),
                    !.pose_history = <<>>,
                    !.generated_poses = <<>>,
                    !.i = 0]]
    /\ UNCHANGED <<Shared, Others>>

\* ------------------------------------------------------------------------
\* generate_poses_from_video: the result and its file
\* ------------------------------------------------------------------------
\* ndarray.tolist() of an (n, 99) array: a list of n lists of 99 floats
\* (position i + 1 of a list holds entry i of the row)
ToList(arr) ==
    [t \in 1 .. Len(arr) |-> [i \in 1 .. POSE_DIM |-> arr[t][i - 1]]]

OutputData(rec) ==
    [video_path |-> "video",
     seed_frames |-> rec.seq_len,
     generated_frames |-> rec.num_frames,
     total_frames |-> Len(rec.generated_sequence[1]),
     pose_dimension |-> POSE_DIM,
     poses |-> ToList(rec.generated_sequence[1])]

PrepareOutput(r) ==
    /\ run[r].phase = "prepare"
    /\ run' = [run EXCEPT ![r] =
                 [Goto(@, PhaseAfter("prepare")) EXCEPT
                    !.output_data = Some(OutputData(run[r]))]]
    /\ UNCHANGED <<Shared, Others>>

\* JSON text as its tokens: a string, an integer literal, a float literal
\* (repr, which identifies the float), an array of values
JsonString(str) == <<"string", str>>
JsonInt(n) == <<"int", n>>
JsonFloat(q) == <<"float", q[1], q[2]>>
JsonArray(items) == <<"array", items>>

\* json.dump of the result: the members in insertion order
JsonDump(output_data) ==
    <<<<"video_path", JsonString(output_data.video_path)>>,
      <<"seed_frames", JsonInt(output_data.seed_frames)>>,
      <<"generated_frames", JsonInt(output_data.generated_frames)>>,
      <<"total_frames", JsonInt(output_data.total_frames)>>,
      <<"pose_dimension", JsonInt(output_data.pose_dimension)>>,
      <<"poses",
        JsonArray([t \in 1 .. Len(output_data.poses) |->
                     JsonArray([i \in 1 .. Len(output_data.poses[t]) |->
                                  JsonFloat(output_data.poses[t][i])])])>>>>

\* the Python value json.load makes of a JSON value
RECURSIVE JsonValue(_)
JsonValue(tok) ==
    IF tok[1] = "array" THEN [k \in 1 .. Len(tok[2]) |-> JsonValue(tok[2][k])]
    ELSE IF tok[1] = "float" THEN Rat(tok[2], tok[3])
    ELSE tok[2]

HasMember(doc, key) == \E m \in 1 .. Len(doc) : doc[m][1] = key

\* data[key] of the dict json.load returns
Member(doc, key) ==
    JsonValue(doc[CHOOSE m \in 1 .. Len(doc) : doc[m][1] = key][2])

\* json.load of a document the program wrote
JsonLoad(doc) ==
    [video_path |-> Member(doc, "video_path"),
     seed_frames |-> Member(doc, "seed_frames"),
     generated_frames |-> Member(doc, "generated_frames"),
     total_frames |-> Member(doc, "total_frames"),
     pose_dimension |-> Member(doc, "pose_dimension"),
     poses |-> Member(doc, "poses")]

\* np.array(data['poses']): row t (1-based, as a list of rows), entry 0..98
NpArray(poses) ==
    [t \in 1 .. Len(poses) |-> [i \in PoseIdx |-> poses[t][i + 1]]]

\* (a column-major reading of the 99 entries: joint j, axis c from 33*c + j)
UnflattenColumnMajor(pose_99d) ==
    [j \in Joints |-> [c \in Axes |-> pose_99d[NUM_JOINTS * c + j]]]

\* pose_99d.reshape(33, 3): row-major, joint j, axis c from entry 3*j + c
Unflatten(pose_99d) ==
    [j \in Joints |-> [c \in Axes |-> pose_99d[IN_CHANNELS * j + c]]]

\* what reads back from a part of the file that was never written
Hole == <<"hole", JsonInt(0)>>

\* f.write of `units` through a handle whose position is pos: the handle's
\* own position decides where they land, whatever the file holds by now; a
\* position beyond the end of the file leaves a hole before it
WriteAt(content, pos, units) ==
    LET padded == IF Len(content) < pos
                  THEN content \o [k \in 1 .. (pos - Len(content)) |-> Hole]
                  ELSE content
    IN  SubSeq(padded, 1, pos) \o units
            \o SubSeq(padded, pos + Len(units) + 1, Len(padded))

\* open(output_file, 'w'): the file exists and is empty, and the new handle
\* is at position 0
OpenOutput(r) ==
    /\ run[r].phase = "open"
    /\ disk_file' = Some(<<>>)
    /\ run' = [run EXCEPT ![r] =
                 [Goto(@, PhaseAfter("open")) EXCEPT
                    !.file_ops = @ + 1, !.fpos = 0]]
    /\ UNCHANGED <<POSE_DETECTOR, given, cuda_available, device_changes, Others>>

\* json.dump hands the text to the file object piece by piece, and the file
\* object passes it on whenever its buffer is full and when it is closed: a
\* document larger than the buffer reaches the file in several writes. Two
\* are taken here: the members before "poses", and the rest.
FirstWrite(doc) == Len(doc) - 1

\* json.dump(output_data, f, indent=2): one write of the next part of the
\* document at the position of this handle; with the last part the file is
\* closed.
DumpOutput(r) ==
    /\ run[r].phase = "dump"
    /\ LET doc == JsonDump(run[r].output_data[1])
           pos == run[r].fpos
           upto == IF pos < FirstWrite(doc) THEN FirstWrite(doc) ELSE Len(doc)
       IN  /\ disk_file' =
                 Some(WriteAt(disk_file[1], pos, SubSeq(doc, pos + 1, upto)))
           /\ run' = [run EXCEPT ![r] =
                        IF upto = Len(doc)
                        THEN [Goto(@, PhaseAfter("dump")) EXCEPT
                                !.file_ops = @ + 1, !.fpos = 0]
                        ELSE [@ EXCEPT !.file_ops = @ + 1, !.fpos = upto]]
    /\ UNCHANGED <<POSE_DETECTOR, given, cuda_available, device_changes, Others>>

\* return output_data
Return(r) ==
    /\ run[r].phase = "return"
    /\ run' = [run EXCEPT ![r].phase = "done", ![r].returned = run[r].output_data]
    /\ UNCHANGED <<Shared, Others>>

\* ------------------------------------------------------------------------
\* backend_server.generate_poses: the response to the caller
\* ------------------------------------------------------------------------
\* jsonify(output_data), 200, or the handler of Exception: str(e), 500
Respond(r) ==
    /\ run[r].phase \in {"done", "failed"}
    /\ run[r].response = None
    /\ run' = [run EXCEPT ![r].response =
                 IF run[r].phase = "done"
                 THEN Some([status |-> 200, body |-> run[r].returned,
                            error |-> None])
                 ELSE Some([status |-> 500, body |-> None,
                            error |-> Some(run[r].error[1].msg)])]
    /\ UNCHANGED <<Shared, Others>>

\* ------------------------------------------------------------------------
\* The consumers of the output file (example_usage.run_inference,
\* visualize_human_mesh.create_video_from_poses)
\* ------------------------------------------------------------------------
\* Once the run has ended without an error: json.load of the output file,
\* np.array(data['poses']), and pose.reshape(33, 3) of every row. A file that
\* holds no complete document makes json.load raise.
LoadPoses(r) ==
    /\ run[r].phase = "done"
    /\ viewer = None
    /\ disk_file # None
    /\ viewer' =
          IF HasMember(disk_file[1], "poses")
          THEN LET data == JsonLoad(disk_file[1])
                   poses == NpArray(data.poses)
               IN  Some([error |-> None,
                         data |-> Some(data),
                         poses |-> poses,
                         joints |-> [t \in 1 .. Len(poses) |-> Unflatten(poses[t])]])
          ELSE Some([error |-> Some("JSONDecodeError"), data |-> None,
                     poses |-> <<>>, joints |-> <<>>])
    /\ UNCHANGED <<Shared, run, NormVars>>

\* ------------------------------------------------------------------------
\* The environment: accelerator availability changes
\* ------------------------------------------------------------------------
\* Availability is read by the loader, by the device selection and in the
\* loop. A change before the load is another initial value and a change
\* during the scan of the video is a change just before the selection, so
\* changes are taken from the selection on.
DeviceRead(r) == run[r].phase \in {"device", "predict"}

DeviceChange ==
    /\ device_changes < MaxDeviceChanges
    /\ \E r \in Requests : DeviceRead(r)
    /\ cuda_available' = ~cuda_available
    /\ device_changes' = device_changes + 1
    /\ UNCHANGED <<POSE_DETECTOR, given, disk_file, run, Others>>

Next ==
    \/ \E r \in Requests :
          \/ Validate(r)
          \/ LoadPipelineModels(r)
          \/ ReadConfig(r)
          \/ SamplerOpen(r)
          \/ SamplerRead(r)
          \/ SeedBody(r)
          \/ SeedCheck(r)
          \/ SelectDevice(r)
          \/ PredictBegin(r)
          \/ PredictStep(r)
          \/ PredictEnd(r)
          \/ PrepareOutput(r)
          \/ OpenOutput(r)
          \/ DumpOutput(r)
          \/ Return(r)
          \/ Respond(r)
          \/ LoadPoses(r)
    \/ DeviceChange

Spec == Init /\ [][Next]_vars

\* the guard of PredictStep: an iteration of the loop is left to run
StepEnabled(r) ==
    /\ run[r].phase = "predict"
    /\ run[r].at = "loop"
    /\ run[r].i < Iterations(run[r].num_frames)

\* The loop of predict_pose_sequence is straight-line code of one thread: a
\* run that is in the loop takes its next iteration, or leaves the loop.
\* This is weak fairness of PredictStep(r) and of PredictEnd(r); for
\* PredictStep(r) it is written out, with the guard of the action as its
\* enabling condition (every step it takes changes i or raises).
LoopFairness ==
    \A r \in Requests :
        /\ []<>(~StepEnabled(r)) \/ []<><<PredictStep(r)>>_vars
        /\ WF_vars(PredictEnd(r))

SpecLive == Spec /\ LoopFairness

\* ------------------------------------------------------------------------
\* Two requests served at once (the server handles each request in a thread
\* of its own), each with a video that opens and arguments of its own
\* ------------------------------------------------------------------------
\* a video at 30 fps scanned at 30 fps, frames as what a detector that sees
\* this video alone finds in them
GivenVideo(frames, num_frames) ==
    [reported_fps |-> 30, proc_fps |-> 30, frames |-> frames,
     num_frames |-> num_frames]

\* the locals of a call that has loaded the model and read seq_len
RunAtSeed(seq_len) ==
    [NewRun("seed") EXCEPT
        !.model = Some([device |-> CurrentDevice,
                        shapes |-> ConstructedShapes([seq_len |-> seq_len])]),
        !.seq_len = seq_len,
        !.device = Some(CurrentDevice)]

\* both requests have loaded the same checkpoint and are about to scan
InitTwo ==
    /\ POSE_DETECTOR = Some(FreshPose)
    /\ given = [r \in Requests |->
                  IF r = 1
                  THEN Some(GivenVideo(<<Some("A"), Some("B")>>, 2))
                  ELSE Some(GivenVideo(<<Some("B"), None, Some("A")>>, 1))]
    /\ cuda_available = FALSE
    /\ device_changes = 0
    /\ disk_file = Some(StaleDocument)
    /\ \E seq_len \in {1, 2} : run = [r \in Requests |-> RunAtSeed(seq_len)]
    /\ norm_pc = "idle"
    /\ landmarks = None
    /\ normalized = None
    /\ scale = One
    /\ normalized_scaled = None
    /\ viewer = None

NextTwo ==
    \E r \in Requests :
        \/ SamplerOpen(r)
        \/ SamplerRead(r)
        \/ SeedBody(r)
        \/ SeedCheck(r)
        \/ SelectDevice(r)
        \/ PredictBegin(r)
        \/ PredictStep(r)
        \/ PredictEnd(r)
        \/ PrepareOutput(r)
        \/ OpenOutput(r)
        \/ DumpOutput(r)
        \/ Return(r)
        \/ Respond(r)

SpecTwo == InitTwo /\ [][NextTwo]_vars

\* ------------------------------------------------------------------------
\* normalize_landmarks called on its own
\* ------------------------------------------------------------------------
\* torso vectors (shoulder midpoint minus hip midpoint) of rational length:
\* none at all (a degenerate pose), along one axis, and oblique
TorsoVectors ==
    {P3(0, 0, 0), P3(0, -4, 0), P3(0, 0, 2), P3(3, -4, 0), P3(-6, 0, 8),
     RP3(Zero, Rat(-1, 2), Zero)}

\* positive factors by which a landmark set is rescaled
Scales == {Rat(1, 2), RInt(2), RInt(3)}

\* Landmark sets: the left hip on a grid, the right hip w to its right, the
\* shoulders s to either side of hip midpoint + torso, the other joints by k.
NormInputs ==
    {MakeLandmarks(
        P3(x, y, 0),
        P3(x + w, y, 0),
        VecAdd(VecAdd(MidPoint(P3(x, y, 0), P3(x + w, y, 0)), torso), P3(-s, 0, 0)),
        VecAdd(VecAdd(MidPoint(P3(x, y, 0), P3(x + w, y, 0)), torso), P3(s, 0, 0)),
        k)
     : x \in 0 .. MaxCoord, y \in 0 .. MaxCoord, w \in 0 .. 2,
       torso \in TorsoVectors, s \in 0 .. 1, k \in 1 .. 2}

InitNorm ==
    /\ POSE_DETECTOR = Some(FreshPose)
    /\ given = [r \in Requests |-> None]
    /\ cuda_available = FALSE
    /\ device_changes = 0
    /\ disk_file = None
    /\ run = [r \in Requests |-> NewRun("idle")]
    /\ norm_pc = "call"
    /\ landmarks \in {None} \cup {Some(lm) : lm \in NormInputs}
    /\ normalized = None
    /\ scale \in Scales
    /\ normalized_scaled = None
    /\ viewer = None

\* landmarks * k, elementwise
Scaled(lm, k) ==
    IF lm = None THEN None
    ELSE Some([j \in Joints |-> [c \in Axes |-> RMul(lm[1][j][c], k)]])

\* normalize_landmarks(landmarks) and normalize_landmarks(landmarks * scale)
NormalizeCall ==
    /\ norm_pc = "call"
    /\ normalized' = normalize_landmarks(landmarks)
    /\ normalized_scaled' = normalize_landmarks(Scaled(landmarks, scale))
    /\ norm_pc' = "done"
    /\ UNCHANGED <<Shared, run, landmarks, scale, viewer>>

NextNorm == NormalizeCall

SpecNorm == InitNorm /\ [][NextNorm]_vars

\* ------------------------------------------------------------------------
\* Properties
\* ------------------------------------------------------------------------
Last(seq) == seq[Len(seq)]

\* request r's predict_pose_sequence has returned
Predicted(r) == run[r].generated_sequence # None

\* C1: for a seed of length seq_len and a requested count G >= 0,
\* predict_pose_sequence returns the seed vectors, unchanged and in order,
\* followed by the G predictions in the order they were made: L + G vectors,
\* and exactly the seed when G = 0.
C1_SeedThenPredictions ==
    \A r \in Requests :
        (Predicted(r) /\ run[r].num_frames >= 0) =>
            /\ Len(run[r].seed_sequence[1]) = run[r].seq_len
            /\ Len(run[r].predictions) = run[r].num_frames
            /\ run[r].generated_sequence[1] =
                   run[r].seed_sequence[1] \o run[r].predictions
            /\ Len(run[r].generated_sequence[1]) =
                   run[r].seq_len + run[r].num_frames
            /\ (run[r].num_frames = 0 =>
                   run[r].generated_sequence[1] = run[r].seed_sequence[1])

\* a returned sequence of two different seed vectors and two different predictions
C1_Witness ==
    \E r \in Requests :
        /\ run[r].phase = "done"
        /\ run[r].seq_len = 2
        /\ run[r].num_frames = 2
        /\ Len(run[r].generated_sequence[1]) = 4
        /\ run[r].generated_sequence[1][1] # run[r].generated_sequence[1][2]
        /\ run[r].generated_sequence[1][3] # run[r].generated_sequence[1][4]

\* request r takes one step of the autoregressive loop
LoopStep(r) ==
    /\ run[r].phase = "predict"
    /\ run'[r].phase = "predict"
    /\ run'[r].i = run[r].i + 1

\* C2: after every step of the loop pose_history holds exactly seq_len
\* vectors, its most recent entry is the prediction just appended to
\* generated_poses, and the oldest entry of the window before the step is gone.
C2_WindowAfterStep ==
    [][\A r \in Requests :
          LoopStep(r) =>
              /\ Len(run'[r].pose_history) = run[r].seq_len
              /\ Len(run'[r].generated_poses) = Len(run[r].generated_poses) + 1
              /\ Last(run'[r].pose_history) = Last(run'[r].generated_poses)
              /\ Last(run'[r].pose_history) = Last(run'[r].predictions)
              /\ \A t \in 1 .. (run[r].seq_len - 1) :
                    run'[r].pose_history[t] = run[r].pose_history[t + 1]]_vars

\* a window of two predictions, the seed evicted
C2_Witness ==
    \E r \in Requests :
        /\ run[r].phase = "predict"
        /\ run[r].at = "loop"
        /\ run[r].seq_len = 2
        /\ run[r].i = 2
        /\ run[r].pose_history = run[r].predictions
        /\ run[r].pose_history[1] # run[r].pose_history[2]
        /\ run[r].seed_sequence[1][1] # run[r].seed_sequence[1][2]

\* get_seed_sequence_from_video has scanned the whole video and decided
SeedDecided(r) ==
    \/ run[r].phase \in {"device", "predict", "prepare", "open", "dump", "return", "done"}
    \/ /\ run[r].phase = "failed"
       /\ \/ run[r].failed_in \in {"device", "predict"}
          \/ run[r].failed_in = "seed" /\ run[r].at = "check"

\* the failure get_seed_sequence_from_video raises for too few usable frames
DataInsufficiency(err) ==
    /\ err # None
    /\ err[1].type = "ValueError"
    /\ err[1].msg[1] = "usable frames"

\* C3: when the whole video yields fewer than seq_len frames with a detection,
\* get_seed_sequence_from_video raises the data-insufficiency ValueError and
\* returns no seed; a seed that is returned never has fewer than seq_len
\* vectors and is never padded beyond the detections.
C3_ShortVideoRaises ==
    \A r \in Requests :
        /\ (SeedDecided(r) /\ Len(run[r].detections) < run[r].seq_len) =>
              /\ run[r].phase = "failed"
              /\ run[r].failed_in = "seed"
              /\ DataInsufficiency(run[r].error)
              /\ run[r].error[1].msg = <<"usable frames", Len(run[r].detections),
                                         run[r].seq_len>>
              /\ run[r].seed_sequence = None
        /\ run[r].seed_sequence # None =>
              /\ Len(run[r].seed_sequence[1]) = run[r].seq_len
              /\ Len(run[r].detections) >= run[r].seq_len

\* a video of three frames with exactly seq_len - 1 = 1 detection is refused
C3_Witness ==
    \E r \in Requests :
        /\ run[r].phase = "failed"
        /\ run[r].failed_in = "seed"
        /\ run[r].cap = "released"
        /\ run[r].seq_len = 2
        /\ run[r].decoded = 3
        /\ Len(run[r].detections) = 1
        /\ DataInsufficiency(run[r].error)

\* the normalized vector of each landmark set the detector reports
NormalizedPose ==
    [A |-> Normalized(LandmarksOf("A")), B |-> Normalized(LandmarksOf("B"))]

\* the normalized vectors of the first n detected frames
FirstDetections(detections, n) == [t \in 1 .. n |-> NormalizedPose[detections[t]]]

\* C4: when the video yields at least seq_len frames with a detection,
\* get_seed_sequence_from_video raises nothing and returns exactly seq_len
\* vectors, the normalized landmarks of the first seq_len detected frames in
\* frame order; missed frames contribute nothing and later detections are not
\* part of the seed. The vectors are compared where the call returns (phase
\* "device", before the next statement of the caller runs).
C4_SeedIsFirstDetections ==
    \A r \in Requests :
        (SeedDecided(r) /\ Len(run[r].detections) >= run[r].seq_len) =>
            /\ run[r].failed_in # "seed"
            /\ run[r].seed_sequence # None
            /\ Len(run[r].seed_sequence[1]) = run[r].seq_len
            /\ run[r].phase = "device" =>
                   run[r].seed_sequence[1] =
                       FirstDetections(run[r].detections, run[r].seq_len)

\* three frames decoded at stride 1, one missed, two detected (B then A), and
\* a seed of one vector: that of B
C4_Witness ==
    \E r \in Requests :
        /\ run[r].phase = "device"
        /\ run[r].seq_len = 1
        /\ run[r].decoded = 3
        /\ run[r].detections = <<"B", "A">>
        /\ run[r].seed_sequence[1] = <<NormalizedPose["B"]>>

\* C5: every result generate_poses_from_video returns has seed_frames equal to
\* the number of seed poses, generated_frames equal to the number of predicted
\* poses, total_frames equal to the number of entries of poses and to
\* seed_frames + generated_frames, and pose_dimension 99.
C5_MetadataConsistent ==
    \A r \in Requests :
        run[r].returned # None =>
            LET d == run[r].returned[1]
            IN  /\ d.seed_frames = Len(run[r].seed_sequence[1])
                /\ d.generated_frames = Len(run[r].predictions)
                /\ d.total_frames = Len(d.poses)
                /\ d.total_frames = d.seed_frames + d.generated_frames
                /\ d.pose_dimension = POSE_DIM

\* no request has touched generated_poses.json
FileUntouched == \A r \in Requests : run[r].file_ops = 0

\* C6: a run of generate_poses_from_video that fails returns no result and has
\* not written or modified the output file; the file is written only after
\* the whole requested sequence has been produced.
C6_AllOrNothing ==
    /\ \A r \in Requests :
          /\ run[r].phase = "failed" =>
                /\ run[r].returned = None
                /\ run[r].output_data = None
                /\ run[r].file_ops = 0
                /\ (run[r].response # None => run[r].response[1].body = None)
          /\ run[r].file_ops > 0 =>
                /\ Predicted(r)
                /\ Len(run[r].generated_sequence[1]) =
                       run[r].seq_len + Iterations(run[r].num_frames)
    /\ FileUntouched => disk_file \in {None, Some(StaleDocument)}

\* a run that fails in the loop after its first prediction, the old file intact
C6_Witness ==
    \E r \in Requests :
        /\ run[r].phase = "failed"
        /\ run[r].failed_in = "predict"
        /\ run[r].i = 1
        /\ Len(run[r].generated_poses) = run[r].seq_len + 1
        /\ disk_file = Some(StaleDocument)

\* C7: a video that cannot be opened makes the run fail with a failure the
\* caller can tell from the data-insufficiency failure of a video that opens
\* but has too few detections.
C7_SourceUnavailableDistinct ==
    \A r \in Requests :
        (run[r].phase = "failed" /\ run[r].cap = "unopened") =>
            ~DataInsufficiency(run[r].error)

\* load_pipeline_models has returned or raised for request r
LoadDecided(r) ==
    \/ run[r].phase = "config"
    \/ run[r].phase = "failed" /\ run[r].failed_in = "load"

\* C8: the model is constructed from the checkpoint's own configuration
\* record: a readable checkpoint whose weights are those of a model of its own
\* configuration loads, and one whose weights are not fails to load.
C8_LoadsIffOwnShapes ==
    \A r \in Requests :
        (/\ LoadDecided(r)
         /\ run[r].found.stgcn # None
         /\ ~run[r].found.stgcn[1].corrupt
         /\ run[r].found.pca # "corrupt"
         /\ run[r].found.kmeans # "corrupt") =>
            (run[r].phase = "config" <=> OwnShapes(run[r].found.stgcn[1]))

\* C9: load_pipeline_models fails with FileNotFoundError when the checkpoint
\* file is absent; an absent PCA or K-Means file never makes it fail: with a
\* loadable checkpoint it returns the model and the configuration, the absent
\* auxiliary model being None.
C9_OnlyCheckpointRequired ==
    \A r \in Requests :
        LoadDecided(r) =>
            /\ run[r].found.stgcn = None =>
                  /\ run[r].phase = "failed"
                  /\ run[r].error[1].type = "FileNotFoundError"
                  /\ run[r].model = None
            /\ (/\ ReachesAux(run[r].found.stgcn)
                /\ run[r].found.pca # "corrupt"
                /\ run[r].found.kmeans # "corrupt") =>
                  /\ run[r].phase = "config"
                  /\ run[r].model # None
                  /\ run[r].config = run[r].found.stgcn[1].cfg
                  /\ (run[r].found.pca = "absent" <=> run[r].pca_model = None)
                  /\ (run[r].found.kmeans = "absent" <=> run[r].kmeans_model = None)

\* a load that succeeds with neither auxiliary model
C9_Witness ==
    \E r \in Requests :
        /\ run[r].phase = "config"
        /\ run[r].found.pca = "absent"
        /\ run[r].found.kmeans = "absent"
        /\ run[r].model # None
        /\ run[r].config # None
        /\ run[r].pca_model = None
        /\ run[r].kmeans_model = None

\* the sum of the squares of the coordinates of shoulder midpoint minus hip
\* midpoint, from joints 11, 12, 23 and 24
TorsoSquared(lm) ==
    LET d(c) == RSub(RDiv(RAdd(lm[11][c], lm[12][c]), Two),
                     RDiv(RAdd(lm[23][c], lm[24][c]), Two))
    IN  RAdd(RAdd(RMul(d(0), d(0)), RMul(d(1), d(1))), RMul(d(2), d(2)))

\* torso_len of lm is at least 1e-6
NonDegenerate(lm) == ~RLess(RSqrt(TorsoSquared(lm)), TORSO_EPS)

\* C10: for a landmark set of non-degenerate torso length normalize_landmarks
\* returns 99 entries, entry 3*j + c being (landmark[j][c] - hip_mid[c]) /
\* torso_len with hip_mid the mean of joints 23 and 24 and torso_len the
\* distance from hip_mid to the mean of joints 11 and 12; so the midpoint of
\* joints 23 and 24 of the output is the zero vector. None gives None.
C10_NormalizeFormula ==
    norm_pc = "done" =>
        IF landmarks = None THEN normalized = None
        ELSE /\ normalized # None
             /\ DOMAIN normalized[1] = 0 .. 98
             /\ NonDegenerate(landmarks[1]) =>
                   LET lm == landmarks[1]
                       out == normalized[1]
                       hip_mid(c) == RDiv(RAdd(lm[23][c], lm[24][c]), Two)
                       torso_len == RawTorsoLen(lm)
                   IN  /\ ~RLess(torso_len, Zero)
                       /\ RMul(torso_len, torso_len) = TorsoSquared(lm)
                       /\ \A j \in 0 .. 32 : \A c \in 0 .. 2 :
                             out[3 * j + c] =
                                 RDiv(RSub(lm[j][c], hip_mid(c)), torso_len)
                       /\ \A c \in 0 .. 2 :
                             RDiv(RAdd(out[3 * 23 + c], out[3 * 24 + c]), Two) = Zero

\* an oblique torso of length 5, hips apart and off the origin, normalized
C10_Witness ==
    /\ norm_pc = "done"
    /\ landmarks # None
    /\ normalized # None
    /\ TorsoSquared(landmarks[1]) = RInt(25)
    /\ landmarks[1][23] # landmarks[1][24]
    /\ landmarks[1][23][0] = RInt(2)
    /\ normalized[1][3 * 23] = Rat(-1, 5)
    /\ normalized[1][3 * 24] = Rat(1, 5)

\* C11: for a landmark set whose torso length is below 1e-6 (hips and
\* shoulders with coincident midpoints) normalize_landmarks divides by 1.0:
\* entry 3*j + c of the output is landmark[j][c] - hip_mid[c], and every entry
\* is finite (neither inf nor nan).
C11_DegenerateTorsoUnscaled ==
    (norm_pc = "done" /\ landmarks # None /\ ~NonDegenerate(landmarks[1])) =>
        LET lm == landmarks[1]
            out == normalized[1]
            hip_mid(c) == RDiv(RAdd(lm[23][c], lm[24][c]), Two)
        IN  /\ normalized # None
            /\ DOMAIN out = 0 .. 98
            /\ \A i \in 0 .. 98 : Finite(out[i])
            /\ \A j \in 0 .. 32 : \A c \in 0 .. 2 :
                  out[3 * j + c] = RSub(lm[j][c], hip_mid(c))

\* a degenerate torso with the hips apart and off the origin: the left hip
\* comes out at (-1, 0, 0), joint 0 away from the origin
C11_Witness ==
    /\ norm_pc = "done"
    /\ landmarks # None
    /\ TorsoSquared(landmarks[1]) = Zero
    /\ landmarks[1][23] = P3(1, 2, 0)
    /\ landmarks[1][24] = P3(3, 2, 0)
    /\ normalized[1][3 * 23] = RInt(-1)
    /\ normalized[1][3 * 0 + 1] = RInt(-2)

C13_RoundTrip ==
    (viewer # None /\ viewer[1].error = None) =>
        \E r \in Requests :
            /\ run[r].returned # None
            /\ LET d == run[r].returned[1]
                   data == viewer[1].data[1]
                   generated == run[r].generated_sequence[1]
               IN  /\ data.video_path = d.video_path
                   /\ data.seed_frames = d.seed_frames
                   /\ data.generated_frames = d.generated_frames
                   /\ data.total_frames = d.total_frames
                   /\ data.pose_dimension = d.pose_dimension
                   /\ data.poses = d.poses
                   /\ Len(viewer[1].poses) = Len(generated)
                   /\ \A t \in 1 .. Len(generated) :
                         /\ viewer[1].poses[t] = generated[t]
                         /\ \A j \in 0 .. 32 : \A c \in 0 .. 2 :
                               viewer[1].joints[t][j][c] = generated[t][3 * j + c]

\* a reloaded result of two seed vectors and two predictions, whose first
\* vector un-flattens to joint 23 at x = -1/2 (landmark set A: hips 4 apart,
\* torso 4)
C13_Witness ==
    /\ viewer # None
    /\ viewer[1].error = None
    /\ viewer[1].data[1].seed_frames = 2
    /\ viewer[1].data[1].generated_frames = 2
    /\ Len(viewer[1].poses) = 4
    /\ viewer[1].joints[1][23][0] = Rat(-1, 2)
    /\ viewer[1].joints[1][23][1] = Zero
    /\ viewer[1].joints[3] # viewer[1].joints[4]

\* the integer nearest to n / d (n >= 0, d > 0), the even one of two nearest
NearestInt(n, d) ==
    CHOOSE k \in 0 .. (n \div d) + 1 :
        \A m \in 0 .. (n \div d) + 1 :
            \/ Abs(n - k * d) < Abs(n - m * d)
            \/ Abs(n - k * d) = Abs(n - m * d) /\ (k % 2 = 0 \/ m = k)

\* the sampler of request r has opened its video
SamplerOpened(r) ==
    /\ \/ run[r].phase = "seed"
       \/ run[r].phase = "failed" /\ run[r].failed_in = "seed"
    /\ run[r].cap \in {"open", "released"}

\* C14: for an opened video sample_frames_from_video uses native_fps = 30
\* when the capture reports 0, stride = max(1, round(native_fps /
\* target_fps)), and has yielded exactly the frames decoded so far whose
\* index is a multiple of the stride, in increasing index and timestamp
\* order, each with timestamp index / native_fps; after the end of decoding
\* the handle is released and these are all the frames it yielded.
C14_SamplerStride ==
    \A r \in Requests :
        SamplerOpened(r) =>
            LET native == IF run[r].reported_fps = 0 THEN 30 ELSE run[r].reported_fps
                nearest == NearestInt(native, run[r].sample_fps)
                stride == IF nearest < 1 THEN 1 ELSE nearest
                multiples == {n \in 0 .. (run[r].decoded - 1) : n % stride = 0}
                yielded == run[r].yielded
            IN  /\ run[r].video_fps = native
                /\ run[r].step = stride
                /\ {yielded[k][1] : k \in 1 .. Len(yielded)} = multiples
                /\ Len(yielded) = Cardinality(multiples)
                /\ \A k \in 1 .. Len(yielded) :
                      /\ yielded[k][2] = Rat(yielded[k][1], native)
                      /\ k > 1 => /\ yielded[k - 1][1] < yielded[k][1]
                                  /\ RLess(yielded[k - 1][2], yielded[k][2])

\* a capture reporting 25 fps sampled at 10 (ratio 2.5, stride 2): of three
\* decoded frames those of index 0 and 2 were yielded, the last at 2/25 s
C14_Witness ==
    \E r \in Requests :
        /\ run[r].cap = "released"
        /\ run[r].reported_fps = 25
        /\ run[r].sample_fps = 10
        /\ run[r].step = 2
        /\ run[r].decoded = 3
        /\ run[r].yielded = <<<<0, Zero>>, <<2, Rat(2, 25)>>>>

\* the landmark sets found, in order, in those of the first n frames whose
\* index is a multiple of stride
RECURSIVE DetectedIn(_, _, _)
DetectedIn(frames, stride, n) ==
    IF n = 0 THEN <<>>
    ELSE LET before == DetectedIn(frames, stride, n - 1)
         IN  IF (n - 1) % stride = 0 /\ frames[n] # None
             THEN Append(before, frames[n][1])
             ELSE before

\* seed followed by n predictions, each made from the last seq_len vectors
RECURSIVE Extended(_, _, _)
Extended(seed, seq_len, n) ==
    IF n <= 0 THEN seed
    ELSE LET before == Extended(seed, seq_len, n - 1)
             window == SubSeq(before, Len(before) - seq_len + 1, Len(before))
         IN  Append(before, Forward(InputTensor(window, seq_len), seq_len)[0])

\* what generate_poses_from_video returns for video v when no other request
\* runs: the poses, or None when the video has too few detections
Alone(v, seq_len) ==
    LET found == DetectedIn(v.frames, 1, Len(v.frames))
    IN  IF Len(found) < seq_len THEN None
        ELSE Some(ToList(Extended(FirstDetections(found, seq_len), seq_len,
                                  v.num_frames)))

\* C15: under any interleaving of two generation runs the result returned to
\* each request is the result the request gets when it runs alone: the seed
\* of its own video followed by the predictions made from its own window.
C15_SameAsAlone ==
    \A r \in Requests :
        (given[r] # None /\ run[r].returned # None) =>
            /\ Alone(given[r][1], run[r].seq_len) # None
            /\ run[r].returned[1].poses = Alone(given[r][1], run[r].seq_len)[1]

\* the part of C15 about the window: what is returned to a request is its own
\* seed, as its scan built it, followed by predictions made from it alone
C15_OwnWindow ==
    \A r \in Requests :
        run[r].returned # None =>
            run[r].returned[1].poses =
                ToList(Extended(run[r].seed_sequence[1], run[r].seq_len,
                                run[r].num_frames))

\* both requests generate at once, each in the middle of its loop
C15_Witness ==
    /\ run[1].phase = "predict" /\ run[1].i = 1
    /\ run[2].phase = "predict" /\ run[2].at = "loop" /\ run[2].i = 0
    /\ run[1].pose_history # run[2].pose_history

\* request r is in the loop of predict_pose_sequence
InLoop(r) == run[r].phase = "predict" /\ run[r].at = "loop"

\* C16: the loop starts with no prediction made and the window holding the
\* seed; the model is invoked once per iteration, one invocation after the
\* other, each on a window whose newest entry is the previous prediction; a
\* call that returns has made exactly num_frames predictions (num_frames >=
\* 0); and every run that is in the loop eventually leaves it (it returns,
\* or an iteration raises).
C16_LoopRunsAndTerminates ==
    /\ [](\A r \in Requests :
            InLoop(r) =>
                /\ Len(run[r].predictions) = run[r].i
                /\ run[r].num_frames >= 0 => run[r].i <= run[r].num_frames
                /\ run[r].i = 0 =>
                      /\ run[r].pose_history = run[r].seed_sequence[1]
                      /\ run[r].generated_poses = run[r].seed_sequence[1]
                /\ run[r].i >= 1 =>
                      Last(run[r].pose_history) = run[r].predictions[run[r].i])
    /\ [](\A r \in Requests :
            (Predicted(r) /\ run[r].num_frames >= 0) =>
                Len(run[r].predictions) = run[r].num_frames)
    /\ [][\A r \in Requests :
            (InLoop(r) /\ run'[r] # run[r]) =>
                \/ /\ InLoop(r)'
                   /\ run[r].i < run[r].num_frames
                   /\ run'[r].i = run[r].i + 1
                   /\ Len(run'[r].predictions) = Len(run[r].predictions) + 1
                \/ /\ Predicted(r)'
                   /\ run[r].i >= run[r].num_frames
                \/ run'[r].phase = "failed"]_vars
    /\ \A r \in Requests : InLoop(r) ~> ~InLoop(r)

\* a call that has returned after two invocations of the model
C16_Witness ==
    \E r \in Requests :
        /\ run[r].phase = "prepare"
        /\ run[r].num_frames = 2
        /\ Len(run[r].predictions) = 2
        /\ run[r].predictions[1] # run[r].predictions[2]

\* ------------------------------------------------------------------------
\* C17: the scan of get_seed_sequence_from_video
\* ------------------------------------------------------------------------
\* request r is in the scan and already holds seq_len normalized vectors
SeedComplete(r) ==
    /\ run[r].phase = "seed"
    /\ run[r].at \in {"read", "body"}
    /\ Len(run[r].frames_vecs) >= run[r].seq_len

\* C17: once seq_len valid vectors have been collected, no further frame is
\* read from the video, handed to the extractor or normalized: the only step
\* the scan still takes is the one that ends it.
C17_StopsWhenEnough ==
    [][\A r \in Requests :
          SeedComplete(r) =>
              /\ run'[r].decoded = run[r].decoded
              /\ run'[r].detections = run[r].detections
              /\ run'[r].frames_vecs = run[r].frames_vecs]_vars

\* a scan that holds more normalized vectors than the seed needs
C17_Witness ==
    \E r \in Requests :
        /\ run[r].phase = "seed"
        /\ Len(run[r].frames_vecs) > run[r].seq_len
        /\ run[r].decoded > run[r].seq_len

\* C17 (what the code keeps): whatever the scan collects beyond seq_len
\* vectors, the seed is the first seq_len of them, in order.
C17_SeedIsFirstVectors ==
    [][\A r \in Requests :
          (run[r].phase = "seed" /\ run'[r].phase = PhaseAfter("seed")) =>
              /\ Len(run[r].frames_vecs) >= run[r].seq_len
              /\ run'[r].seed_sequence =
                    Some(SubSeq(run[r].frames_vecs, 1, run[r].seq_len))]_vars

\* ------------------------------------------------------------------------
\* C18: the capture of sample_frames_from_video
\* ------------------------------------------------------------------------
\* the scan of request r is over: the for loop has ended, or an exception has
\* left get_seed_sequence_from_video
ScanOver(r) ==
    \/ run[r].phase = "seed" /\ run[r].at = "check"
    \/ run[r].phase = "failed" /\ run[r].failed_in = "seed"

\* C18: on every path out of the scan (the video is exhausted, the video did
\* not open, the extractor raised at a yielded frame) the capture has been
\* released.
C18_ReleasedOnEveryExit ==
    \A r \in Requests : ScanOver(r) => run[r].cap = "released"

\* the extractor has raised at a yielded frame and the capture is still open
C18_Witness ==
    \E r \in Requests :
        /\ run[r].phase = "failed"
        /\ run[r].failed_in = "seed"
        /\ run[r].error[1].type = "RuntimeError"
        /\ run[r].cap = "open"
        /\ Len(run[r].yielded) >= 1

\* C18 (what the code keeps): a scan that ends because cap.read() has no more
\* frames releases the capture.
C18_ReleasedAfterExhaustion ==
    [][\A r \in Requests :
          (run[r].phase = "seed" /\ run[r].at = "read"
              /\ run'[r].phase = "seed" /\ run'[r].at = "check") =>
                  run[r].cap = "open" /\ run'[r].cap = "released"]_vars

\* ------------------------------------------------------------------------
\* C19: the device of a generation run
\* ------------------------------------------------------------------------
\* the device the input tensor of the next step is sent to can be used
InputDeviceAvailable(r) ==
    run[r].inference_device[1] = "cuda" => cuda_available

\* C19: the device of a run is the one found available at generation time,
\* and every generation step runs with the model's parameters and the input
\* tensor on that same device, also when availability has changed since
\* load_pipeline_models.
C19_ModelAndInputSameDevice ==
    \A r \in Requests :
        (StepEnabled(r) /\ InputDeviceAvailable(r)) =>
            /\ run[r].model[1].device = run[r].inference_device[1]
            /\ ~StepFails(run[r], cuda_available)

\* availability changed after the model was loaded: the first generation step
\* was made with the input tensor on the device selected at generation time
\* and the parameters on the device of load time, and raised
C19_Witness ==
    \E r \in Requests :
        /\ run[r].phase = "failed"
        /\ run[r].failed_in = "predict"
        /\ device_changes = 1
        /\ run[r].model[1].device # run[r].inference_device[1]
        /\ run[r].inference_device[1] = CurrentDevice
        /\ run[r].predictions = <<>>

\* C19 (what the code keeps): the device handed to predict_pose_sequence is
\* the outcome of the availability check made at that moment, and the device
\* the loop starts with is available when it starts.
C19_SelectedAtGenerationTime ==
    [][\A r \in Requests :
          /\ (run[r].phase = "device" /\ run'[r].phase = "predict") =>
                run'[r].inference_device = Some(CurrentDevice)
          /\ (run[r].phase = "predict" /\ run[r].at = "call"
                 /\ run'[r].at = "loop") =>
                (run'[r].inference_device[1] = "cuda" => cuda_available)]_vars

\* ------------------------------------------------------------------------
\* C20: the input tensor of a generation step
\* ------------------------------------------------------------------------
\* C20: at every generation step the input of the model has the layout
\* (1, 3, seq_len, 33); its element [0, c, t, j] is entry 3*j + c of the t-th
\* oldest vector of the window; the window is the last seq_len vectors of
\* the sequence generated so far, oldest first; and flattening slice t of the
\* reshaped window gives the window's vector t back.
C20_InputLayout ==
    \A r \in Requests :
        StepEnabled(r) =>
            LET seq_len == run[r].seq_len
                window == run[r].pose_history
                sofar == run[r].generated_poses
                x == InputTensor(window, seq_len)
                Times == 0 .. (seq_len - 1)
            IN  /\ Len(window) = seq_len
                /\ DOMAIN x = {0}
                /\ DOMAIN x[0] = 0 .. 2
                /\ \A c \in 0 .. 2 :
                      /\ DOMAIN x[0][c] = Times
                      /\ \A t \in Times :
                            /\ DOMAIN x[0][c][t] = 0 .. 32
                            /\ \A j \in 0 .. 32 :
                                  x[0][c][t][j] = window[t + 1][3 * j + c]
                /\ \A t \in Times :
                      /\ window[t + 1] = sofar[Len(sofar) - seq_len + t + 1]
                      /\ Flatten(Reshape(window, seq_len)[t]) = window[t + 1]

\* a step on a window of two vectors, the older from the video and the newer
\* a prediction, whose tensor separates channels from joints
C20_Witness ==
    \E r \in Requests :
        /\ StepEnabled(r)
        /\ run[r].seq_len = 2
        /\ run[r].i = 1
        /\ run[r].pose_history =
              <<run[r].seed_sequence[1][2], run[r].predictions[1]>>
        /\ run[r].pose_history[1] # run[r].pose_history[2]
        /\ LET x == InputTensor(run[r].pose_history, 2)
           IN  \E j \in Joints, c \in Axes :
                  /\ j \in Axes
                  /\ x[0][c][0][j] # x[0][j][0][c]

\* ------------------------------------------------------------------------
\* C21: the window and the generated sequence
\* ------------------------------------------------------------------------
\* the last n entries of a sequence of at least n entries
Tail_n(seq, n) == SubSeq(seq, Len(seq) - n + 1, Len(seq))

\* the window the claim gives for step k: the last seq_len - k seed vectors
\* followed by the first k predictions, or the latest seq_len predictions
WindowOfStep(seed, preds, k, seq_len) ==
    IF k < seq_len
    THEN Tail_n(seed, seq_len - k) \o SubSeq(preds, 1, k)
    ELSE SubSeq(preds, k - seq_len + 1, k)

\* C21: at every point of the loop pose_history is, entry for entry and in
\* order, the last seq_len entries of generated_poses; after k predictions it
\* is the last seq_len - k seed vectors followed by the first k predictions
\* (k < seq_len) or the latest seq_len predictions, each prediction as the
\* model returned it.
C21_WindowIsTailOfGenerated ==
    \A r \in Requests :
        InLoop(r) =>
            LET seq_len == run[r].seq_len
                k == run[r].i
                seed == run[r].seed_sequence[1]
                preds == run[r].predictions
                window == run[r].pose_history
                sofar == run[r].generated_poses
            IN  /\ Len(preds) = k
                /\ sofar = seed \o preds
                /\ Len(window) = seq_len
                /\ \A t \in 1 .. seq_len :
                      window[t] = sofar[Len(sofar) - seq_len + t]
                /\ window = WindowOfStep(seed, preds, k, seq_len)

\* a step about to run on a window of one vector that holds the first
\* prediction, the seed vector evicted
C21_Witness ==
    \E r \in Requests :
        /\ StepEnabled(r)
        /\ run[r].seq_len = 1
        /\ run[r].i = 1
        /\ run[r].num_frames = 2
        /\ run[r].pose_history = <<run[r].predictions[1]>>
        /\ run[r].generated_poses =
              <<run[r].seed_sequence[1][1], run[r].predictions[1]>>
        /\ run[r].seed_sequence[1][1] # run[r].predictions[1]

\* ------------------------------------------------------------------------
\* C22: two requests and the one output file
\* ------------------------------------------------------------------------
\* the response to request r has been made
Answered(r) == run[r].response # None

\* the file json.dump makes of the result returned to request r
DocumentOf(r) == JsonDump(run[r].returned[1])

\* the response to request r carries what its own run generated
OwnResponse(r) ==
    run[r].response[1].status = 200 =>
        /\ run[r].returned # None
        /\ run[r].response[1].body = Some(OutputData(run[r]))

\* C22: under any interleaving of two requests, once both are answered the
\* file generated_poses.json is the complete document of the result of one
\* of them, and each response carries the result of its own request.
C22_FileIsOneResult ==
    (\A r \in Requests : Answered(r)) =>
        /\ \A r \in Requests : OwnResponse(r)
        /\ (\E r \in Requests : run[r].returned # None) =>
              \E r \in Requests :
                  /\ run[r].returned # None
                  /\ disk_file = Some(DocumentOf(r))

\* both requests are answered with their results, and the file holds the
\* scalar members of one result followed by the poses of the other
C22_Witness ==
    /\ \A r \in Requests : Answered(r) /\ run[r].response[1].status = 200
    /\ \E r, o \in Requests :
          /\ r # o
          /\ DocumentOf(r) # DocumentOf(o)
          /\ Len(disk_file[1]) = Len(DocumentOf(r))
          /\ \A m \in 1 .. FirstWrite(DocumentOf(r)) :
                disk_file[1][m] = DocumentOf(r)[m]
          /\ Last(disk_file[1]) = Last(DocumentOf(o))
          /\ Last(disk_file[1]) # Last(DocumentOf(r))
          /\ disk_file[1][3] # DocumentOf(o)[3]

\* C22 (what the code keeps): output_data is a local of each call, so every
\* response carries the result of its own request whatever the file holds.
C22_OwnResponse ==
    \A r \in Requests : Answered(r) => OwnResponse(r)

====
